---- MODULE Spec2Model ----
(***************************************************************************)
(* Model of the CoinGecko scraper (src/crypto_scraper.py) and of its       *)
(* companion dispatch tool (src/email_sender.py).                          *)
(*                                                                         *)
(* Text is modelled as a sequence of one-character strings, so that the    *)
(* string operations of the source (split, strip, lower, isdigit, int)     *)
(* are computed, not assumed.  The browser, the SMTP server, the operator  *)
(* at the prompt and the file system are the environment: their answers    *)
(* are drawn from small sets in the actions.                               *)
(***************************************************************************)
EXTENDS Integers, Sequences, FiniteSets, TLC

VARIABLES
    prog,        \* which program runs: "scraper" or "sender"
    \* ---- crypto_scraper.py ----
    pc,          \* position of main / scrape_all
    outcome,     \* how the pagination loop was left: "none", "success", "stalled"
    page_num,    \* scrape_all: page_num
    url,         \* scrape_all: url
    page_url,    \* the browser's current address (page.url)
    success,     \* scrape_all: success, what click_next_page returned last
    all_rows,    \* scrape_all: all_rows (the Table)
    rows,        \* main: rows, the value scrape_all returned
    files,       \* the output directory: file name -> [rows, locked]
    loads,       \* page.goto calls made for the current page
    harvests,    \* scrape_page calls made for the current page
    builds,      \* build_excel calls made so far
    batches,     \* the batches appended so far, one per page, in page order
    harvested,   \* the number of the page the last scrape_page call saw
    cleanups,    \* delete_old_excel_files calls made so far
    browser,     \* "closed" or "open"
    report,      \* what main reported: "none", "no_data", "done"
    \* ---- both programs ----
    config,      \* the delivery configuration the dispatcher read
    delivery,    \* outcome of the dispatcher
    email_calls, \* calls of send_email / send_email_with_attachment
    net_calls,   \* SMTP connections opened
    \* ---- email_sender.py ----
    s_pc,        \* position of email_sender.main
    argv,        \* sys.argv[1:]
    found,       \* what the directory search finds, in search order
    available_files, \* main: available_files
    file_path,   \* main: file_path
    prompts,     \* input() calls answered so far
    last_input,  \* what the last input() call read
    exit_code    \* process exit status, NoExit while running

vars == <<prog, pc, outcome, page_num, url, page_url, success, all_rows, rows,
          files, loads, harvests, builds, batches, harvested,
          cleanups, browser, report,
          config, delivery, email_calls, net_calls,
          s_pc, argv, found, available_files, file_path, prompts, last_input,
          exit_code>>

scraperVars == <<pc, outcome, page_num, url, page_url, success, all_rows, rows,
                 files, loads, harvests, builds, batches, harvested,
                 cleanups, browser,
                 report>>

senderVars == <<s_pc, argv, found, available_files, file_path, prompts,
               last_input, exit_code>>

-----------------------------------------------------------------------------
(* Bounds of the model *)

\* the site has at most this many pages: the next-page affordance is offered
\* only on pages before the last one
MaxPages == 3

\* the selection prompt is answered at most this many times
MaxPrompts == 2

-----------------------------------------------------------------------------
(* Text *)

Digits == {"0", "1", "2", "3", "4", "5", "6", "7", "8", "9"}

UpperCase == <<"A","B","C","D","E","F","G","H","I","J","K","L","M",
               "N","O","P","Q","R","S","T","U","V","W","X","Y","Z">>

LowerCase == <<"a","b","c","d","e","f","g","h","i","j","k","l","m",
               "n","o","p","q","r","s","t","u","v","w","x","y","z">>

Letters == {UpperCase[i] : i \in 1..26} \cup {LowerCase[i] : i \in 1..26}

Whitespace == {" ", "\t", "\n"}

\* str.lower() on one character
LowerChar(c) ==
    IF \E i \in 1..26 : UpperCase[i] = c
    THEN LowerCase[CHOOSE i \in 1..26 : UpperCase[i] = c]
    ELSE c

\* str.lower()
Lower(s) == [i \in 1..Len(s) |-> LowerChar(s[i])]

\* str.isdigit(): non-empty and every character a digit
IsDigit(s) == Len(s) > 0 /\ \A i \in 1..Len(s) : s[i] \in Digits

\* str.isalpha(): non-empty and every character a letter
IsAlpha(s) == Len(s) > 0 /\ \A i \in 1..Len(s) : s[i] \in Letters

\* str.replace(c, "")
Remove(s, c) == SelectSeq(s, LAMBDA x : x # c)

\* str.replace(c, d) for single characters
Replace(s, c, d) == [i \in 1..Len(s) |-> IF s[i] = c THEN d ELSE s[i]]

RECURSIVE LStrip(_)
LStrip(s) ==
    IF Len(s) > 0 /\ s[1] \in Whitespace THEN LStrip(Tail(s)) ELSE s

RECURSIVE RStrip(_)
RStrip(s) ==
    IF Len(s) > 0 /\ s[Len(s)] \in Whitespace
    THEN RStrip(SubSeq(s, 1, Len(s) - 1))
    ELSE s

\* str.strip()
Strip(s) == RStrip(LStrip(s))

\* str.split(sep) for a one-character separator: empty parts are kept
RECURSIVE Split(_, _)
Split(s, sep) ==
    IF \A i \in 1..Len(s) : s[i] # sep
    THEN <<s>>
    ELSE LET k == CHOOSE i \in 1..Len(s) :
                      s[i] = sep /\ \A j \in 1..(i - 1) : s[j] # sep
         IN  <<SubSeq(s, 1, k - 1)>> \o Split(SubSeq(s, k + 1, Len(s)), sep)

\* " ".join(parts)
RECURSIVE Join(_)
Join(parts) ==
    IF Len(parts) = 0 THEN <<>>
    ELSE IF Len(parts) = 1 THEN parts[1]
    ELSE parts[1] \o <<" ">> \o Join(Tail(parts))

\* [p.strip() for p in parts if p.strip()]
StrippedNonEmpty(parts) ==
    LET stripped == [i \in 1..Len(parts) |-> Strip(parts[i])]
    IN  SelectSeq(stripped, LAMBDA p : Len(p) > 0)

-----------------------------------------------------------------------------
(* scrape_page: what the page hands back, and the rows made of it *)

\* dict.get(key, '')
Get(item, key) == IF key \in DOMAIN item THEN item[key] ELSE <<>>

\* a variant that keeps the Buy button text
KeepNamePart_KeepsBuy(part) ==
    /\ ~IsDigit(Remove(Remove(part, ","), "."))
    /\ ~(Len(part) <= 2 /\ ~IsAlpha(part))

\* clean_coin_name, the filter of its loop: TRUE when the part is kept
KeepNamePart(part) ==
    /\ ~IsDigit(Remove(Remove(part, ","), "."))
    /\ Lower(part) # <<"b", "u", "y">>
    /\ ~(Len(part) <= 2 /\ ~IsAlpha(part))

clean_coin_name(name) ==
    LET parts == StrippedNonEmpty(Split(name, "\n"))
        cleaned_parts == SelectSeq(parts, KeepNamePart)
    IN  Strip(Join(cleaned_parts))

\* a variant that leaves out the fields the item does not have
KeyedRow_OmitMissing(item) ==
    LET keys == <<"price", "change1h", "change24h", "change7d", "volume",
                  "marketCap", "graphLink">>
        present == SelectSeq(keys, LAMBDA k : k \in DOMAIN item)
    IN  <<clean_coin_name(Get(item, "name"))>>
            \o [i \in 1..Len(present) |-> item[present[i]]]

\* a variant that reads volume and marketCap the other way round
KeyedRow_SwapsVolume(item) ==
    << clean_coin_name(Get(item, "name")),
       Get(item, "price"),
       Get(item, "change1h"),
       Get(item, "change24h"),
       Get(item, "change7d"),
       Get(item, "marketCap"),
       Get(item, "volume"),
       Get(item, "graphLink") >>

\* the row built from one item of js_data
KeyedRow(item) ==
    << clean_coin_name(Get(item, "name")),
       Get(item, "price"),
       Get(item, "change1h"),
       Get(item, "change24h"),
       Get(item, "change7d"),
       Get(item, "volume"),
       Get(item, "marketCap"),
       Get(item, "graphLink") >>

\* a variant that keeps the items whose cleaned name is empty
KeyedRows_KeepUnnamed(js_data) ==
    [i \in 1..Len(js_data) |-> KeyedRow(js_data[i])]

\* the loop over js_data: an item whose cleaned name is empty adds nothing
KeyedRows(js_data) ==
    LET kept == SelectSeq(js_data,
                    LAMBDA item : Len(clean_coin_name(Get(item, "name"))) > 0)
    IN  [i \in 1..Len(kept) |-> KeyedRow(kept[i])]

\* the fallback's filter of rank and Buy: TRUE when the part is kept
KeepFallbackPart(part) ==
    /\ ~(IsDigit(Remove(Remove(part, ","), ".")) /\ Len(part) < 4)
    /\ Lower(part) # <<"b", "u", "y">>

\* filtered[i] if len(filtered) > i else '' (i counted from 0, as in the source)
At(filtered, i) == IF Len(filtered) > i THEN filtered[i + 1] ELSE <<>>

\* the parts of a row's text, rank and Buy filtered out
FallbackParts(item) ==
    StrippedNonEmpty(Split(Replace(Get(item, "text"), "\t", "\n"), "\n"))

FallbackFiltered(item) == SelectSeq(FallbackParts(item), KeepFallbackPart)

\* TRUE when the item of fallback_data passes the three tests of the loop
FallbackAccepts(item) ==
    /\ ~(Len(FallbackParts(item)) < 7)
    /\ ~(Len(FallbackFiltered(item)) < 7)
    /\ Len(clean_coin_name(FallbackFiltered(item)[1])) > 0

\* a variant that gives the three change fields to the tokens with a percent
\* symbol, in token order
FallbackRow_PercentSlots(item) ==
    LET filtered == FallbackFiltered(item)
        percents == SelectSeq(filtered,
                        LAMBDA tok : \E j \in 1..Len(tok) : tok[j] = "%")
    IN  << clean_coin_name(filtered[1]),
           At(filtered, 1), At(percents, 0), At(percents, 1),
           At(percents, 2), At(filtered, 5), At(filtered, 6),
           Get(item, "url") >>

\* the row built from one accepted item of fallback_data
FallbackRow(item) ==
    LET filtered == FallbackFiltered(item)
    IN  << clean_coin_name(filtered[1]),
           At(filtered, 1), At(filtered, 2), At(filtered, 3),
           At(filtered, 4), At(filtered, 5), At(filtered, 6),
           Get(item, "url") >>

\* the loop over fallback_data
FallbackRows(fallback_data) ==
    LET kept == SelectSeq(fallback_data, FallbackAccepts)
    IN  [i \in 1..Len(kept) |-> FallbackRow(kept[i])]

\* scrape_page on a page whose two page.evaluate calls return content.js_data
\* and content.fallback_data
scrape_page(content) ==
    LET rows_data == KeyedRows(content.js_data)
    IN  IF Len(rows_data) = 0
        THEN FallbackRows(content.fallback_data)
        ELSE rows_data

-----------------------------------------------------------------------------
(* The two in-page scripts of scrape_page.  A rendered table row is a      *)
(* record [cells, link]: the innerText of each of its cells, and zero or   *)
(* one coin link [href, text] found in it.                                 *)

\* String.prototype.includes, for one character
Includes(text, c) == \E i \in 1..Len(text) : text[i] = c

\* /^\d+[\.,]\d/
MatchesDecimalStart(text) ==
    \E k \in 1..Len(text) :
        /\ k + 2 <= Len(text)
        /\ \A j \in 1..k : text[j] \in Digits
        /\ text[k + 1] \in {".", ","}
        /\ text[k + 2] \in Digits

\* /[\$\d]/
MatchesDollarOrDigit(text) ==
    \E i \in 1..Len(text) : text[i] = "$" \/ text[i] \in Digits

\* /[BMK]|billion|million/i
MatchesMagnitude(text) ==
    \E i \in 1..Len(text) : LowerChar(text[i]) \in {"b", "m", "k"}

\* /^\$?[\d,]+(\.\d+)?[BMK]?$/i
MatchesPlainNumber(text) ==
    \E a \in {0, 1}, b \in {0, 1} :
        /\ (a = 1) => (Len(text) > 0 /\ text[1] = "$")
        /\ (b = 1) => (Len(text) > a
                       /\ LowerChar(text[Len(text)]) \in {"b", "m", "k"})
        /\ LET mid == SubSeq(text, a + 1, Len(text) - b)
               DigitOrComma(i) == mid[i] \in Digits \cup {","}
           IN  \/ /\ Len(mid) > 0
                  /\ \A i \in 1..Len(mid) : DigitOrComma(i)
               \/ \E d \in 2..(Len(mid) - 1) :
                      /\ mid[d] = "."
                      /\ \A i \in 1..(d - 1) : DigitOrComma(i)
                      /\ \A i \in (d + 1)..Len(mid) : mid[i] \in Digits

\* the loop over cellTexts of Strategy A, from cell i (counted from 1) on
RECURSIVE Classify(_, _, _)
Classify(data, cellTexts, i) ==
    IF i > Len(cellTexts) THEN data
    ELSE
      LET text == cellTexts[i]
          Unset(key) == Len(Get(data, key)) = 0
          Put(key) == [k \in DOMAIN data \cup {key} |->
                          IF k = key THEN text ELSE data[k]]
          step ==
            IF i = 1 \/ IsDigit(text) THEN data
            ELSE IF text = data["name"] THEN data
            ELSE IF Unset("price")
                    /\ (Includes(text, "$") \/ MatchesDecimalStart(text))
                 THEN Put("price")
            ELSE IF Includes(text, "%")
                 THEN IF Unset("change1h") THEN Put("change1h")
                      ELSE IF Unset("change24h") THEN Put("change24h")
                      ELSE IF Unset("change7d") THEN Put("change7d")
                      ELSE data
            ELSE IF \/ MatchesDollarOrDigit(text) /\ MatchesMagnitude(text)
                    \/ MatchesPlainNumber(text)
                 THEN IF Unset("volume") THEN Put("volume")
                      ELSE IF Unset("marketCap") THEN Put("marketCap")
                      ELSE data
            ELSE data
      IN  Classify(step, cellTexts, i + 1)

\* the object Strategy A builds for one row of at least 7 cells
StrategyAItem(row) ==
    LET cellTexts == [i \in 1..Len(row.cells) |-> Strip(row.cells[i])]
        named ==
            IF Len(row.link) > 0
            THEN [coinUrl |-> row.link[1].href,
                  name |-> Strip(row.link[1].text)]
            ELSE [name |-> IF Len(cellTexts) > 1 THEN cellTexts[2] ELSE <<>>,
                  coinUrl |-> <<>>]
        data == Classify(named, cellTexts, 1)
        keys == DOMAIN data \cup {"change1h", "change24h", "change7d",
                                  "volume", "marketCap", "graphLink"}
    IN  [k \in keys |->
            IF k = "graphLink" THEN data["coinUrl"] ELSE Get(data, k)]

\* Strategy A: rows of fewer than 7 cells and rows without a name push nothing
StrategyA(dom) ==
    LET pushed == SelectSeq(dom, LAMBDA row :
                      /\ ~(Len(row.cells) < 7)
                      /\ Len(StrategyAItem(row)["name"]) > 0)
    IN  [i \in 1..Len(pushed) |-> StrategyAItem(pushed[i])]

\* innerText of a table row: the texts of its cells, tab-separated
RECURSIVE RowInnerText(_)
RowInnerText(cells) ==
    IF Len(cells) = 0 THEN <<>>
    ELSE IF Len(cells) = 1 THEN cells[1]
    ELSE cells[1] \o <<"\t">> \o RowInnerText(Tail(cells))

\* Strategy B: every row, as its text and the address of its coin link
StrategyB(dom) ==
    [i \in 1..Len(dom) |->
        [text |-> RowInnerText(dom[i].cells),
         url |-> IF Len(dom[i].link) > 0 THEN dom[i].link[1].href ELSE <<>>]]

\* what the two page.evaluate calls of scrape_page return on a rendered table
Rendered(dom) == [js_data |-> StrategyA(dom), fallback_data |-> StrategyB(dom)]

-----------------------------------------------------------------------------
(* The pages the site may serve *)

\* "1\nBitcoin\nBuy"
RawBitcoin == <<"1","\n","B","i","t","c","o","i","n","\n","B","u","y">>
\* " Ethereum \nETH\n2"
RawEthereum == <<" ","E","t","h","e","r","e","u","m"," ","\n","E","T","H","\n","2">>
\* "1,234\nBuy\n#1"
RawRankOnly == <<"1",",","2","3","4","\n","B","u","y","\n","#","1">>
\* "1.5\nX2\nbuy"
RawDecimal == <<"1",".","5","\n","X","2","\n","b","u","y">>
\* "Bitcoin\nBTC"
RawBitcoinTicker == <<"B","i","t","c","o","i","n","\n","B","T","C">>
\* "$65,000"
Price1 == <<"$","6","5",",","0","0","0">>
\* "$3,100.50"
Price2 == <<"$","3",",","1","0","0",".","5","0">>
\* "+0.5%"
Pct1 == <<"+","0",".","5","%">>
\* "-1.2%"
Pct2 == <<"-","1",".","2","%">>
\* "3.4%"
Pct3 == <<"3",".","4","%">>
\* "$20B"
Vol1 == <<"$","2","0","B">>
\* "20B"
VolPlain == <<"2","0","B">>
\* "$1.2B"
Cap1 == <<"$","1",".","2","B">>
\* "$1.2T"
CapT == <<"$","1",".","2","T">>
\* "/coins/btc"
Link1 == <<"/","c","o","i","n","s","/","b","t","c">>
\* "/coins/eth"
Link2 == <<"/","c","o","i","n","s","/","e","t","h">>
\* "N/A"
NotAvailable == <<"N","/","A">>
\* "-"
Dash == <<"-">>
\* "Buy"
BuyButton == <<"B","u","y">>

NL == <<"\n">>

\* rendered rows of the coin table
DomBitcoin ==
    [cells |-> << <<"1">>, RawBitcoin, Price1, Pct1, Pct2, Pct3, Vol1, Cap1 >>,
     link |-> << [href |-> Link1, text |-> RawBitcoin] >>]

\* no cell looks like a price
DomEthereum ==
    [cells |-> << <<"2">>, RawEthereum, NotAvailable, Pct2, Dash, Dash,
                  VolPlain, Dash >>,
     link |-> << [href |-> Link2, text |-> RawEthereum] >>]

\* no coin link: the name is the second cell, and it is rank and button only
DomRankOnly ==
    [cells |-> << <<"3">>, RawRankOnly, Price2, Dash, Dash, Dash, Dash >>,
     link |-> << >>]

DomDecimal ==
    [cells |-> << <<"4">>, RawDecimal, Price2, Pct1, Dash, Dash, Dash >>,
     link |-> << [href |-> Link2, text |-> RawDecimal] >>]

\* fewer than 7 cells and fewer than 7 lines of text
DomShort ==
    [cells |-> << <<"7">>, <<"D","o","g","e">>, <<"$","0",".","1">>,
                  <<"1","%">> >>,
     link |-> << >>]

\* fewer than 7 cells, 8 lines of text, the first of them a rank
DomRankFirst ==
    [cells |-> << <<"1",",","2","3","4">>, Price1 \o NL \o Pct1,
                  Pct2 \o NL \o Pct3, Vol1, Cap1, Price2 >>,
     link |-> << >>]

\* fewer than 7 cells, 10 lines of text
DomSixCells ==
    [cells |-> << <<"1">>, RawBitcoinTicker, BuyButton, Price1 \o NL \o Pct1,
                  Pct2 \o NL \o Pct3, Vol1 \o NL \o CapT >>,
     link |-> << [href |-> Link1, text |-> RawBitcoinTicker] >>]

\* items as the in-page script of Strategy A returns them
ItemBitcoin == StrategyAItem(DomBitcoin)
ItemEthereum == StrategyAItem(DomEthereum)
ItemRankOnly == StrategyAItem(DomRankOnly)
ItemDecimal == StrategyAItem(DomDecimal)

\* nothing rendered
PageEmpty == Rendered(<< >>)
\* rows rendered, every name cleans to nothing on either path
PageRejected == Rendered(<<DomRankOnly, DomDecimal>>)
\* two coins, one of them twice, and a rejected candidate between them
PageKeyed == Rendered(<<DomBitcoin, DomRankOnly, DomEthereum, DomBitcoin>>)
\* rows with fewer than 7 cells: only the fallback yields a row
PageFallback == Rendered(<<DomShort, DomRankFirst, DomSixCells>>)
\* a full page of the site: 100 coins
PageFull ==
    Rendered([i \in 1..100 |-> IF i % 2 = 1 THEN DomBitcoin ELSE DomEthereum])

PageContents ==
    {PageEmpty, PageRejected, PageKeyed, PageFallback, PageFull}

\* the pages, numbered
Pages == <<PageEmpty, PageRejected, PageKeyed, PageFallback, PageFull>>
PageNumber == [c \in PageContents |-> CHOOSE i \in 1..Len(Pages) : Pages[i] = c]

-----------------------------------------------------------------------------
(* The output directory and the workbook *)

\* "a.xlsx", "b.xlsx": documents of earlier runs
OldA == <<"a", ".", "x", "l", "s", "x">>
OldB == <<"b", ".", "x", "l", "s", "x">>
\* "~$a.xlsx": the lock file a spreadsheet program keeps beside an open document
TempA == <<"~", "$", "a", ".", "x", "l", "s", "x">>
\* "debug.png": not a document
OtherFile == <<"d", ".", "p", "n", "g">>
\* XLSX_PATH: "cg_T.xlsx", T the start time of this run
XLSX_PATH == <<"c", "g", "_", "T", ".", "x", "l", "s", "x">>

\* str.startswith
StartsWith(s, prefix) ==
    Len(s) >= Len(prefix) /\ SubSeq(s, 1, Len(prefix)) = prefix

\* str.endswith
EndsWith(s, suffix) ==
    Len(s) >= Len(suffix) /\ SubSeq(s, Len(s) - Len(suffix) + 1, Len(s)) = suffix

\* PAGES_DIR.glob("*.xlsx"), as a set of names
Glob(dir) == {n \in DOMAIN dir : EndsWith(n, <<".", "x", "l", "s", "x">>)}

OldDoc(isLocked) == [doc |-> <<>>, locked |-> isLocked]

\* the directories a run may start in
InitialDirs ==
    { <<>>,
      (OldA :> OldDoc(FALSE)) @@ (OldB :> OldDoc(FALSE)) @@ (TempA :> OldDoc(FALSE)),
      (OldA :> OldDoc(TRUE)) @@ (OldB :> OldDoc(FALSE)) @@ (TempA :> OldDoc(TRUE))
          @@ (OtherFile :> OldDoc(FALSE)) }

\* the file names of dir without name
Without(dir, name) == [n \in (DOMAIN dir) \ {name} |-> dir[n]]

\* a variant in which the first locked file ends the loop
RECURSIVE DeleteLoop_StopsAtLocked(_, _)
DeleteLoop_StopsAtLocked(dir, excel_files) ==
    IF Len(excel_files) = 0 THEN dir
    ELSE LET file_path_ == excel_files[1]
             rest == Tail(excel_files)
         IN  IF StartsWith(file_path_, <<"~", "$">>)
             THEN DeleteLoop_StopsAtLocked(dir, rest)
             ELSE IF dir[file_path_].locked THEN dir
             ELSE DeleteLoop_StopsAtLocked(Without(dir, file_path_), rest)

\* the loop of delete_old_excel_files over excel_files, in the order given:
\* a name starting with "~$" is skipped, a locked file raises PermissionError,
\* which is caught, and the loop goes on
RECURSIVE DeleteLoop(_, _)
DeleteLoop(dir, excel_files) ==
    IF Len(excel_files) = 0 THEN dir
    ELSE LET file_path_ == excel_files[1]
             rest == Tail(excel_files)
         IN  IF StartsWith(file_path_, <<"~", "$">>) THEN DeleteLoop(dir, rest)
             ELSE IF dir[file_path_].locked THEN DeleteLoop(dir, rest)
             ELSE DeleteLoop(Without(dir, file_path_), rest)

\* the orders in which glob may list the set of names
Orders(names) ==
    {o \in [1..Cardinality(names) -> names] :
        \A i, j \in 1..Cardinality(names) : i # j => o[i] # o[j]}

delete_old_excel_files(dir, order) == DeleteLoop(dir, order)

HEADERS == <<"Coin Name", "Price (USD)", "1h %", "24h %", "7d %",
             "24h Volume (USD)", "Market Cap (USD)", "Coin Link">>

\* a variant that starts the data one row too high, over the header row
Workbook_DataFromHeaderRow(table) ==
    << <<"CoinGecko - Cryptocurrency Market Data">>,
       <<Len(table)>> >> \o table

\* the sheet build_excel fills: the title in row 1, the subtitle with the
\* number of coins in row 2, the headers in row 3, the data from row 4 on
Workbook(table) ==
    << <<"CoinGecko - Cryptocurrency Market Data">>,
       <<Len(table)>>,
       HEADERS >> \o table

\* a variant that opens the existing document and adds the rows below it
build_excel_append(dir, table) ==
    IF XLSX_PATH \in DOMAIN dir
    THEN [dir EXCEPT ![XLSX_PATH].doc = @ \o table]
    ELSE (XLSX_PATH :> [doc |-> Workbook(table), locked |-> FALSE]) @@ dir

\* a variant that leaves a document already written as it is
build_excel_keep_first(dir, table) ==
    IF XLSX_PATH \in DOMAIN dir THEN dir
    ELSE (XLSX_PATH :> [doc |-> Workbook(table), locked |-> FALSE]) @@ dir

\* build_excel(rows) when wb.save succeeds: the file at XLSX_PATH is replaced
build_excel(dir, table) ==
    (XLSX_PATH :> [doc |-> Workbook(table), locked |-> FALSE]) @@ dir

ArtifactExists == XLSX_PATH \in DOMAIN files

\* the data rows of the document at XLSX_PATH (read only when it exists)
ArtifactRows == SubSeq(files[XLSX_PATH].doc, 4, Len(files[XLSX_PATH].doc))

-----------------------------------------------------------------------------
(* crypto_scraper.py: main and scrape_all *)

BASE_URL == "https://www.coingecko.com/en/coins"

\* the addresses the browser may report after a click on "next"
Addresses == {BASE_URL, "?page=2"}

\* scrape_page on each page of the site
Harvest == [c \in PageContents |-> scrape_page(c)]

\* what one strategy of click_next_page meets: an enabled control, which it
\* clicks, or none (no control, a disabled one, or an exception, which the
\* strategy catches)
StrategyResults == {"click", "none"}

\* click_next_page: the four strategies are tried in turn, the first click
\* returns True, a strategy without a click falls through to the next one
click_next_page(aff) == \E i \in 1..4 : aff[i] = "click"

\* all([smtp_user, smtp_pass, recipient])
ConfigComplete(cfg) ==
    Len(cfg.smtp_user) > 0 /\ Len(cfg.smtp_pass) > 0 /\ Len(cfg.recipient) > 0

Configs ==
    LET all == [smtp_user : {<<>>, <<"u">>}, smtp_pass : {<<>>, <<"p">>},
                recipient : {<<>>, <<"r">>}]
    IN  {c \in all : Cardinality({k \in DOMAIN c : c[k] = <<>>}) <= 1}

\* a variant without the second attempt
Goto_NoRetry(ok1, ok2) == [loaded |-> ok1, attempts |-> 1]

\* page.goto(url, "domcontentloaded") and, when it raises, page.goto(url,
\* "load"): whether the page loaded and how many attempts were made
Goto(ok1, ok2) ==
    IF ok1 THEN [loaded |-> TRUE, attempts |-> 1]
    ELSE IF ok2 THEN [loaded |-> TRUE, attempts |-> 2]
    ELSE [loaded |-> FALSE, attempts |-> 2]

\* a variant that harvests again on whichever page came back empty
RetryHarvest_AnyPage(first, n) == Len(first) = 0

\* "if not rows: ... if page_num == 1": TRUE when scrape_page is called again
RetryHarvest(first, n) == Len(first) = 0 /\ n = 1

\* a variant that skips the rows the Table already holds
Extend_Dedup(table, got) ==
    table \o SelectSeq(got, LAMBDA r : \A i \in 1..Len(table) : table[i] # r)

\* a variant that puts the new rows in front
Extend_Prepend(table, got) == got \o table

\* all_rows.extend(rows)
Extend(table, got) == table \o got

\* a variant that goes on to the delivery whatever came back
NoData_Never(returned) == FALSE

\* main: "if not rows"
NoData(returned) == Len(returned) = 0

\* main up to the loop of scrape_all: the cleanup, the browser's launch
MainStart(order) ==
    /\ prog = "scraper"
    /\ pc = "main_start"
    /\ files' = delete_old_excel_files(files, order)
    /\ cleanups' = cleanups + 1
    /\ all_rows' = <<>>
    /\ page_num' = 1
    /\ browser' = "open"
    /\ url' = BASE_URL
    /\ pc' = "FETCHING"
    /\ UNCHANGED <<outcome, page_url, success, rows, loads, harvests, builds,
                   batches, harvested, report, config, delivery, email_calls,
                   net_calls>>
    /\ UNCHANGED senderVars
    /\ UNCHANGED prog

\* the top of the loop: page.goto, retried once with wait_until="load"
Fetch(ok1, ok2) ==
    /\ prog = "scraper"
    /\ pc = "FETCHING"
    /\ harvests' = 0
    /\ loads' = Goto(ok1, ok2).attempts
    /\ IF Goto(ok1, ok2).loaded
       THEN /\ page_url' = url
            /\ pc' = "EXTRACTING"
            /\ UNCHANGED outcome
       ELSE /\ pc' = "DONE"
            /\ outcome' = "stalled"
            /\ UNCHANGED page_url
    /\ UNCHANGED <<page_num, url, success, all_rows, rows, files, builds,
                   batches, harvested,
                   cleanups, browser, report, config, delivery,
                   email_calls, net_calls>>
    /\ UNCHANGED senderVars
    /\ UNCHANGED prog

\* scrape_page, its retry on page 1, all_rows.extend and build_excel;
\* c1 and c2 are what the page shows at the first and at the second harvest,
\* saveOk is FALSE when wb.save raises, which nothing catches
Extract(c1, c2, saveOk) ==
    /\ prog = "scraper"
    /\ pc = "EXTRACTING"
    /\ LET first == Harvest[c1]
           retry == RetryHarvest(first, page_num)
           got == IF retry THEN Harvest[c2] ELSE first
       IN  /\ harvests' = IF retry THEN 2 ELSE 1
           /\ harvested' = PageNumber[IF retry THEN c2 ELSE c1]
           /\ IF Len(got) = 0
              THEN /\ pc' = "DONE"
                   /\ outcome' = "stalled"
                   /\ UNCHANGED <<all_rows, batches, builds, files>>
              ELSE /\ all_rows' = Extend(all_rows, got)
                   /\ batches' = Append(batches, got)
                   /\ builds' = builds + 1
                   /\ IF saveOk
                      THEN /\ files' = build_excel(files, all_rows')
                           /\ pc' = "ADVANCING"
                      ELSE /\ pc' = "aborted"
                           /\ UNCHANGED files
                   /\ UNCHANGED outcome
    /\ UNCHANGED <<page_num, url, page_url, success, rows, loads, cleanups,
                   browser, report, config, delivery, email_calls, net_calls>>
    /\ UNCHANGED senderVars
    /\ UNCHANGED prog

\* a variant that goes on with the address it started from
Advance_KeepsUrl(aff, newUrl) ==
    /\ prog = "scraper"
    /\ pc = "ADVANCING"
    /\ click_next_page(aff) => page_num < MaxPages
    /\ success' = click_next_page(aff)
    /\ IF success'
       THEN /\ page_url' = newUrl
            /\ page_num' = page_num + 1
            /\ UNCHANGED url
            /\ pc' = "FETCHING"
            /\ loads' = 0
            /\ harvests' = 0
            /\ UNCHANGED outcome
       ELSE /\ pc' = "DONE"
            /\ outcome' = "success"
            /\ UNCHANGED <<page_url, page_num, url, loads, harvests>>
    /\ UNCHANGED <<all_rows, rows, files, builds, batches, harvested,
                 cleanups, browser,
                   report, config, delivery, email_calls, net_calls>>
    /\ UNCHANGED senderVars
    /\ UNCHANGED prog

\* a variant with a ceiling of two pages
Advance_Ceiling(aff, newUrl) ==
    /\ prog = "scraper"
    /\ pc = "ADVANCING"
    /\ click_next_page(aff) => page_num < MaxPages
    /\ success' = click_next_page(aff)
    /\ IF success' /\ page_num < 2
       THEN /\ page_url' = newUrl
            /\ page_num' = page_num + 1
            /\ url' = page_url'
            /\ pc' = "FETCHING"
            /\ loads' = 0
            /\ harvests' = 0
            /\ UNCHANGED outcome
       ELSE /\ pc' = "DONE"
            /\ outcome' = "success"
            /\ UNCHANGED <<page_url, page_num, url, loads, harvests>>
    /\ UNCHANGED <<all_rows, rows, files, builds, batches, harvested,
                 cleanups, browser,
                   report, config, delivery, email_calls, net_calls>>
    /\ UNCHANGED senderVars
    /\ UNCHANGED prog

\* click_next_page and the bottom of the loop; aff is what the four strategies
\* meet, newUrl the address of the page the click leads to
Advance(aff, newUrl) ==
    /\ prog = "scraper"
    /\ pc = "ADVANCING"
    /\ click_next_page(aff) => page_num < MaxPages
    /\ success' = click_next_page(aff)
    /\ IF success'
       THEN /\ page_url' = newUrl
            /\ page_num' = page_num + 1
            /\ url' = page_url'
            /\ pc' = "FETCHING"
            /\ loads' = 0
            /\ harvests' = 0
            /\ UNCHANGED outcome
       ELSE /\ pc' = "DONE"
            /\ outcome' = "success"
            /\ UNCHANGED <<page_url, page_num, url, loads, harvests>>
    /\ UNCHANGED <<all_rows, rows, files, builds, batches, harvested,
                 cleanups, browser,
                   report, config, delivery, email_calls, net_calls>>
    /\ UNCHANGED senderVars
    /\ UNCHANGED prog

\* after the loop: browser.close() and return all_rows
\* a variant that returns without closing the browser
CloseAndReturn_LeavesOpen ==
    /\ prog = "scraper"
    /\ pc = "DONE"
    /\ rows' = all_rows
    /\ pc' = "main_after"
    /\ UNCHANGED <<outcome, page_num, url, page_url, success, all_rows, files,
                   loads, harvests, builds, batches, harvested,
                   cleanups, report, config, browser,
                   delivery, email_calls, net_calls>>
    /\ UNCHANGED senderVars
    /\ UNCHANGED prog

CloseAndReturn ==
    /\ prog = "scraper"
    /\ pc = "DONE"
    /\ browser' = "closed"
    /\ rows' = all_rows
    /\ pc' = "main_after"
    /\ UNCHANGED <<outcome, page_num, url, page_url, success, all_rows, files,
                   loads, harvests, builds, batches, harvested,
                   cleanups, report, config,
                   delivery, email_calls, net_calls>>
    /\ UNCHANGED senderVars
    /\ UNCHANGED prog

\* a variant that connects without looking at the configuration
ScraperSend_NoCheck(cfg, smtpOk) ==
    IF smtpOk /\ ConfigComplete(cfg)
    THEN [delivery |-> "sent", net |-> 1]
    ELSE [delivery |-> "failed", net |-> 1]

\* send_email of crypto_scraper.py: the outcome and the SMTP connections made
ScraperSend(cfg, smtpOk) ==
    IF ~ConfigComplete(cfg)
    THEN [delivery |-> "skipped", net |-> 0]
    ELSE IF smtpOk
    THEN [delivery |-> "sent", net |-> 1]
    ELSE [delivery |-> "failed", net |-> 1]

\* a variant that removes the document when the delivery did not go through
MainAfter_RollsBack(cfg, smtpOk) ==
    /\ prog = "scraper"
    /\ pc = "main_after"
    /\ IF NoData(rows)
       THEN /\ report' = "no_data"
            /\ UNCHANGED <<config, delivery, email_calls, net_calls, files>>
       ELSE /\ email_calls' = email_calls + 1
            /\ config' = cfg
            /\ delivery' = ScraperSend(cfg, smtpOk).delivery
            /\ net_calls' = net_calls + ScraperSend(cfg, smtpOk).net
            /\ report' = "done"
            /\ files' = IF delivery' = "sent" THEN files
                        ELSE Without(files, XLSX_PATH)
    /\ pc' = "main_exit"
    /\ UNCHANGED <<outcome, page_num, url, page_url, success, all_rows, rows,
                   loads, harvests, builds, batches, harvested,
                   cleanups, browser>>
    /\ UNCHANGED senderVars
    /\ UNCHANGED prog

\* main after scrape_all: the report, and send_email when there is data
MainAfter(cfg, smtpOk) ==
    /\ prog = "scraper"
    /\ pc = "main_after"
    /\ IF NoData(rows)
       THEN /\ report' = "no_data"
            /\ UNCHANGED <<config, delivery, email_calls, net_calls>>
       ELSE /\ email_calls' = email_calls + 1
            /\ config' = cfg
            /\ delivery' = ScraperSend(cfg, smtpOk).delivery
            /\ net_calls' = net_calls + ScraperSend(cfg, smtpOk).net
            /\ report' = "done"
    /\ pc' = "main_exit"
    /\ UNCHANGED <<outcome, page_num, url, page_url, success, all_rows, rows,
                   files, loads, harvests, builds, batches, harvested,
                   cleanups, browser>>
    /\ UNCHANGED senderVars
    /\ UNCHANGED prog

-----------------------------------------------------------------------------
(* email_sender.py *)

NoExit == 0 - 1

\* "r1.xlsx", "r2.xlsx", "r3.xlsx" (names cut short), and a lock file "~r"
Doc1 == <<"r", "1">>
Doc2 == <<"r", "2">>
Doc3 == <<"r", "3">>
DocTemp == <<"~", "r">>
\* a path given on the command line that names no file
DocMissing == <<"n", "o">>

DocNames == {Doc1, Doc2, Doc3, DocTemp}

\* f.stat().st_mtime: Doc2 and Doc3 were written at the same time
Mtime(f) == IF f = Doc1 THEN 1 ELSE IF f = DocTemp THEN 3 ELSE 2

\* the glob finds at most this many entries over the four search paths
MaxFound == 2

RECURSIVE SeqsUpTo(_, _)
SeqsUpTo(S, n) ==
    IF n = 0 THEN {<<>>}
    ELSE LET shorter == SeqsUpTo(S, n - 1)
         IN  shorter \cup {Append(q, x) : q \in shorter, x \in S}

\* list.sort(key=mtime, reverse=True): one insertion; the sort is stable, so
\* f goes behind every entry that is as recent
RECURSIVE InsertByMtime(_, _)
InsertByMtime(sorted, f) ==
    IF Len(sorted) = 0 THEN <<f>>
    ELSE IF Mtime(sorted[1]) >= Mtime(f)
    THEN <<sorted[1]>> \o InsertByMtime(Tail(sorted), f)
    ELSE <<f>> \o sorted

RECURSIVE SortByMtimeDesc(_)
SortByMtimeDesc(fs) ==
    IF Len(fs) = 0 THEN <<>>
    ELSE InsertByMtime(SortByMtimeDesc(SubSeq(fs, 1, Len(fs) - 1)), fs[Len(fs)])

\* the loop that drops the entries whose resolved path was seen before
RECURSIVE Unique(_, _)
Unique(fs, seen) ==
    IF Len(fs) = 0 THEN <<>>
    ELSE IF fs[1] \in seen THEN Unique(Tail(fs), seen)
    ELSE <<fs[1]>> \o Unique(Tail(fs), seen \cup {fs[1]})

\* a variant without the sort: the files stay in search order
list_available_excel_files_Unsorted(globbed) ==
    Unique(SelectSeq(globbed, LAMBDA f : ~StartsWith(f, <<"~">>)), {})

\* list_available_excel_files, globbed being what the globs of the four search
\* paths return, one after the other
list_available_excel_files(globbed) ==
    LET excel_files == SelectSeq(globbed, LAMBDA f : ~StartsWith(f, <<"~">>))
    IN  SortByMtimeDesc(Unique(excel_files, {}))

\* the value of a string of digits
RECURSIVE DigitsValue(_)
DigitsValue(s) ==
    IF Len(s) = 0 THEN 0
    ELSE 10 * DigitsValue(SubSeq(s, 1, Len(s) - 1))
         + (CHOOSE d \in 0..9 : ToString(d) = s[Len(s)])

\* int(s): surrounding whitespace and one sign are accepted; anything else
\* raises ValueError
ParseInt(s) ==
    LET t == Strip(s)
        signed == Len(t) > 0 /\ t[1] \in {"+", "-"}
        body == IF signed THEN Tail(t) ELSE t
    IN  IF IsDigit(body)
        THEN [ok |-> TRUE,
              value |-> IF signed /\ t[1] = "-"
                        THEN 0 - DigitsValue(body) ELSE DigitsValue(body)]
        ELSE [ok |-> FALSE, value |-> 0]

Line(text) == [kind |-> "line", text |-> text]
\* input() at the end of the input stream raises EOFError
EndOfInput == [kind |-> "eof", text |-> <<>>]
\* input() was not called yet
NoInput == [kind |-> "none", text |-> <<>>]

\* what the operator may type at "Send this file? (Y/n)"
ConfirmAnswers ==
    { Line(<<>>), Line(<<"y">>), Line(<<" ", "Y", "E", "S">>), Line(<<"n">>),
      Line(<<"o", "k">>), EndOfInput }

\* what the operator may type at "Enter number to send"
SelectAnswers ==
    { Line(<<"1">>), Line(<<" ", "2">>), Line(<<"0", "3">>), Line(<<"0">>),
      Line(<<"4">>), Line(<<"-", "1">>), Line(<<"x">>), Line(<<>>),
      Line(<<"q">>), Line(<<"Q", "u", "i", "t">>), Line(<<"e", "x", "i", "t">>),
      EndOfInput }

CancelWords == { <<"q">>, <<"q", "u", "i", "t">>, <<"e", "x", "i", "t">> }
YesWords == { <<"y">>, <<"y", "e", "s">> }

\* the command lines: no argument, a path, a path and a recipient
CommandLines ==
    { <<>>, <<Doc1>>, <<DocMissing>>, <<Doc1, <<"r">> >>, <<Doc1, <<>> >> }

\* main down to the prompt: the path argument, or the search
SenderStart ==
    /\ prog = "sender"
    /\ s_pc = "start"
    /\ IF Len(argv) >= 1
       THEN /\ file_path' = argv[1]
            /\ s_pc' = "sending"
            /\ UNCHANGED <<available_files, exit_code>>
       ELSE /\ available_files' = list_available_excel_files(found)
            /\ IF Len(available_files') = 0
               THEN /\ s_pc' = "exited"
                    /\ exit_code' = 1
                    /\ UNCHANGED file_path
               ELSE IF Len(available_files') = 1
               THEN /\ file_path' = available_files'[1]
                    /\ s_pc' = "confirm"
                    /\ UNCHANGED exit_code
               ELSE /\ s_pc' = "select"
                    /\ UNCHANGED <<file_path, exit_code>>
    /\ UNCHANGED <<argv, found, prompts, last_input, config, delivery,
                   email_calls, net_calls>>
    /\ UNCHANGED scraperVars
    /\ UNCHANGED prog

\* one candidate: "Send this file? (Y/n)"
Confirm(answer) ==
    /\ prog = "sender"
    /\ s_pc = "confirm"
    /\ prompts' = prompts + 1
    /\ last_input' = answer
    /\ IF answer.kind = "eof"
       THEN /\ s_pc' = "exited"
            /\ exit_code' = 1
            /\ UNCHANGED delivery
       ELSE LET response == Lower(Strip(answer.text))
            IN  IF Len(response) > 0 /\ response \notin YesWords
                THEN /\ s_pc' = "exited"
                     /\ exit_code' = 0
                     /\ delivery' = "cancelled"
                ELSE /\ s_pc' = "sending"
                     /\ UNCHANGED <<exit_code, delivery>>
    /\ UNCHANGED <<argv, found, available_files, file_path, config,
                   email_calls, net_calls>>
    /\ UNCHANGED scraperVars
    /\ UNCHANGED prog

\* several candidates: one pass of the "Enter number to send" loop
Select(answer) ==
    /\ prog = "sender"
    /\ s_pc = "select"
    /\ prompts < MaxPrompts
    /\ prompts' = prompts + 1
    /\ last_input' = answer
    /\ IF answer.kind = "eof"
       THEN /\ s_pc' = "exited"
            /\ exit_code' = 1
            /\ UNCHANGED <<file_path, delivery>>
       ELSE LET choice == Strip(answer.text)
                choice_num == ParseInt(choice)
            IN  IF Lower(choice) \in CancelWords
                THEN /\ s_pc' = "exited"
                     /\ exit_code' = 0
                     /\ delivery' = "cancelled"
                     /\ UNCHANGED file_path
                ELSE IF /\ choice_num.ok
                        /\ 1 <= choice_num.value
                        /\ choice_num.value <= Len(available_files)
                THEN /\ file_path' = available_files[choice_num.value]
                     /\ s_pc' = "sending"
                     /\ UNCHANGED <<exit_code, delivery>>
                ELSE /\ UNCHANGED <<s_pc, file_path, exit_code, delivery>>
    /\ UNCHANGED <<argv, found, available_files, config, email_calls,
                   net_calls>>
    /\ UNCHANGED scraperVars
    /\ UNCHANGED prog

\* recipient=None
NoRecipient == <<"None">>

\* a variant that returns True whatever the SMTP conversation did
send_email_with_attachment_AlwaysTrue(env, cliRecipient, exists, readOk, smtpOk) ==
    LET recipient == IF cliRecipient = NoRecipient
                     THEN env.recipient ELSE cliRecipient
        cfg == [env EXCEPT !.recipient = recipient]
    IN  IF ~ConfigComplete(cfg)
        THEN [delivery |-> "config_error", ok |-> FALSE, net |-> 0, cfg |-> cfg]
        ELSE IF ~exists \/ ~readOk
        THEN [delivery |-> "file_error", ok |-> FALSE, net |-> 0, cfg |-> cfg]
        ELSE [delivery |-> IF smtpOk THEN "sent" ELSE "failed",
              ok |-> TRUE, net |-> 1, cfg |-> cfg]

\* send_email_with_attachment: the outcome, the value returned and the SMTP
\* connections made; env is the .env configuration, cliRecipient the recipient
\* argument (NoRecipient when there is none)

send_email_with_attachment(env, cliRecipient, exists, readOk, smtpOk) ==
    LET recipient == IF cliRecipient = NoRecipient
                     THEN env.recipient ELSE cliRecipient
        cfg == [env EXCEPT !.recipient = recipient]
    IN  IF ~ConfigComplete(cfg)
        THEN [delivery |-> "config_error", ok |-> FALSE, net |-> 0, cfg |-> cfg]
        ELSE IF ~exists
        THEN [delivery |-> "file_error", ok |-> FALSE, net |-> 0, cfg |-> cfg]
        ELSE IF ~readOk
        THEN [delivery |-> "file_error", ok |-> FALSE, net |-> 0, cfg |-> cfg]
        ELSE IF smtpOk
        THEN [delivery |-> "sent", ok |-> TRUE, net |-> 1, cfg |-> cfg]
        ELSE [delivery |-> "failed", ok |-> FALSE, net |-> 1, cfg |-> cfg]

\* the end of main: the call of send_email_with_attachment and sys.exit
SenderSend(env, exists, readOk, smtpOk) ==
    /\ prog = "sender"
    /\ s_pc = "sending"
    /\ LET recipient == IF Len(argv) > 1 THEN argv[2] ELSE NoRecipient
           r == send_email_with_attachment(env, recipient, exists, readOk, smtpOk)
       IN  /\ email_calls' = email_calls + 1
           /\ config' = r.cfg
           /\ delivery' = r.delivery
           /\ net_calls' = net_calls + r.net
           /\ exit_code' = IF r.ok THEN 0 ELSE 1
    /\ s_pc' = "exited"
    /\ UNCHANGED <<argv, found, available_files, file_path, prompts,
                   last_input>>
    /\ UNCHANGED scraperVars
    /\ UNCHANGED prog

-----------------------------------------------------------------------------
(* The specification *)

InitScraper ==
    /\ pc = "main_start"
    /\ outcome = "none"
    /\ page_num = 1
    /\ url = BASE_URL
    /\ page_url = "about:blank"
    /\ success = FALSE
    /\ all_rows = <<>>
    /\ rows = <<>>
    /\ loads = 0
    /\ harvests = 0
    /\ builds = 0
    /\ batches = <<>>
    /\ harvested = PageNumber[PageEmpty]
    /\ cleanups = 0
    /\ browser = "closed"
    /\ report = "none"

InitSender ==
    /\ s_pc = "start"
    /\ available_files = <<>>
    /\ file_path = <<>>
    /\ prompts = 0
    /\ last_input = NoInput
    /\ exit_code = NoExit

Init ==
    /\ prog \in {"scraper", "sender"}
    /\ InitScraper
    /\ InitSender
    /\ config = [smtp_user |-> <<>>, smtp_pass |-> <<>>, recipient |-> <<>>]
    /\ delivery = "none"
    /\ email_calls = 0
    /\ net_calls = 0
    /\ IF prog = "scraper"
       THEN /\ files \in InitialDirs
            /\ argv = <<>>
            /\ found = <<>>
       ELSE /\ files = <<>>
            /\ argv \in CommandLines
            /\ found \in IF Len(argv) = 0
                         THEN SeqsUpTo(DocNames, MaxFound) ELSE {<<>>}

\* a step of crypto_scraper.py
ScraperStep ==
    \/ \E order \in Orders(Glob(files)) : MainStart(order)
    \/ \E ok1, ok2 \in BOOLEAN : Fetch(ok1, ok2)
    \/ \E c1, c2 \in PageContents, saveOk \in BOOLEAN : Extract(c1, c2, saveOk)
    \/ \E aff \in [1..4 -> StrategyResults], newUrl \in Addresses :
           Advance(aff, newUrl)
    \/ CloseAndReturn
    \/ \E cfg \in Configs, smtpOk \in BOOLEAN : MainAfter(cfg, smtpOk)

\* a step of email_sender.py
SenderStep ==
    \/ SenderStart
    \/ \E answer \in ConfirmAnswers : Confirm(answer)
    \/ \E answer \in SelectAnswers : Select(answer)
    \/ \E env \in Configs, exists, readOk, smtpOk \in BOOLEAN :
           SenderSend(env, exists, readOk, smtpOk)

Next == ScraperStep \/ SenderStep

Spec == Init /\ [][Next]_vars

\* The scraper is one coroutine run to completion by asyncio.run, and every
\* wait in it is bounded (the timeouts of page.goto, wait_for_timeout and of
\* the selectors of click_next_page): a step of it that can be taken is
\* taken.  Nothing of the kind holds for the operator at the prompts of
\* email_sender.py.
FairSpec == Spec /\ WF_vars(ScraperStep)

-----------------------------------------------------------------------------
(* Properties of the pagination driver *)

RECURSIVE Flatten(_)
Flatten(bs) == IF Len(bs) = 0 THEN <<>> ELSE bs[1] \o Flatten(Tail(bs))

\* the loop was left and scrape_all has returned or is about to
LoopLeft == pc \in {"DONE", "main_after", "main_exit"}

Returned == pc \in {"main_after", "main_exit"}

\* the document at XLSX_PATH holds exactly the rows of the Table, and there is
\* no document exactly when the Table is empty
ArtifactIsTable ==
    IF Len(all_rows) = 0
    THEN ~ArtifactExists
    ELSE ArtifactExists /\ ArtifactRows = all_rows

\* C1: the Table, and the list scrape_all returns, is the concatenation of
\* the batches scrape_page returned for the pages processed, in page order and
\* within a page in extraction order: no row is reordered, dropped or
\* deduplicated.
C1_TableIsConcatenation ==
    /\ prog = "scraper" => all_rows = Flatten(batches)
    /\ Returned => rows = Flatten(batches)

\* two pages were processed, both showed the same rows (among them one coin
\* twice), and scrape_all returned all of them
C1_Witness ==
    /\ Returned
    /\ Len(batches) = 2
    /\ batches[1] = batches[2]
    /\ Len(batches[1]) = 3
    /\ batches[1][1] = batches[1][3]
    /\ rows = batches[1] \o batches[2]

\* C2: build_excel has been called once for every page that yielded rows, and
\* whenever the driver is advancing, fetching a later page or done, the rows
\* of the document are the rows of the Table, the document being absent only
\* while the Table is empty.
C2_ProgressivePersistence ==
    /\ builds = Len(batches)
    /\ (pc = "ADVANCING" \/ (pc = "FETCHING" /\ page_num > 1) \/ LoopLeft)
           => ArtifactIsTable

\* the driver is about to fetch page 3 and the document holds the rows of
\* pages 1 and 2
C2_Witness ==
    /\ pc = "FETCHING"
    /\ page_num = 3
    /\ builds = 2
    /\ ArtifactExists
    /\ ArtifactRows = batches[1] \o batches[2]

\* C3: a step of the extraction calls scrape_page once or twice, twice only
\* on page 1; when it ends the traversal, the traversal is stalled, the page
\* was harvested twice if it is page 1 and once otherwise, and the Table, the
\* number of build_excel calls and the directory are as before.
C3_ZeroRowsRetryOnlyOnFirstPage ==
    [][pc = "EXTRACTING" =>
          /\ harvests' \in {1, 2}
          /\ harvests' = 2 => page_num = 1
          /\ pc' = "DONE" =>
                /\ outcome' = "stalled"
                /\ harvests' = IF page_num = 1 THEN 2 ELSE 1
                /\ UNCHANGED <<all_rows, batches, builds, files>>]_vars

\* page 2 came back empty and was harvested once
C3_Witness ==
    /\ pc = "DONE"
    /\ outcome = "stalled"
    /\ page_num = 2
    /\ harvests = 1
    /\ Len(batches) = 1

\* the traversal stopped because the page did not load
LoadFailed == LoopLeft /\ outcome = "stalled" /\ harvests = 0

\* C4: a page is loaded with one or two page.goto calls; when the traversal
\* stops on a page that did not load, two calls were made, the Table and the
\* document hold the rows of all earlier pages, and scrape_all returns them.
C4_LoadFailureKeepsRows ==
    /\ pc = "EXTRACTING" => loads \in {1, 2}
    /\ LoadFailed =>
          /\ loads = 2
          /\ Len(batches) = page_num - 1
          /\ all_rows = Flatten(batches)
          /\ ArtifactIsTable
          /\ Returned => rows = all_rows

\* page 2 did not load, and the rows of page 1 were returned
C4_Witness ==
    /\ pc = "main_after"
    /\ LoadFailed
    /\ page_num = 2
    /\ Len(rows) > 0
    /\ rows = batches[1]

\* C5: a step from ADVANCING ends in DONE(success) with the page counter
\* unchanged when click_next_page returned False, and otherwise in FETCHING
\* with the page counter one higher and url the address the browser reports.
C5_Advancing ==
    [][pc = "ADVANCING" =>
          IF success'
          THEN /\ pc' = "FETCHING"
               /\ page_num' = page_num + 1
               /\ url' = page_url'
               /\ outcome' = "none"
          ELSE /\ pc' = "DONE"
               /\ outcome' = "success"
               /\ page_num' = page_num
               /\ url' = url]_vars

\* the driver advanced from page 1 and fetches page 2 at the address reported
C5_Witness ==
    /\ pc = "FETCHING"
    /\ page_num = 2
    /\ success
    /\ url = "?page=2"
    /\ page_url = "?page=2"

\* pages 1 and 2 yielded 100 rows each, page 3 was harvested and yielded none
Scenario200 ==
    /\ pc = "DONE"
    /\ page_num = 3
    /\ harvests = 1
    /\ Len(batches) = 2
    /\ Len(batches[1]) = 100
    /\ Len(batches[2]) = 100

\* C6, as claimed: in that scenario the traversal ends in DONE(success) with
\* 200 rows in the Table and in the document.
C6_AsClaimed ==
    Scenario200 =>
        /\ outcome = "success"
        /\ Len(all_rows) = 200
        /\ ArtifactExists /\ Len(ArtifactRows) = 200

\* C6: in that scenario the traversal ends in DONE(stalled), with 200 rows
\* in the Table and the same 200 rows in the document.
C6_TwoHundredRowsThenStalled ==
    Scenario200 =>
        /\ outcome = "stalled"
        /\ Len(all_rows) = 200
        /\ ArtifactExists /\ ArtifactRows = all_rows

C6_Witness == Scenario200 /\ Len(all_rows) = 200

\* page 1 yielded no row at the first harvest nor at the retry
FirstPageEmptyTwice ==
    LoopLeft /\ page_num = 1 /\ harvests = 2 /\ outcome = "stalled"

\* C7: when page 1 yields no row twice, the traversal is stalled with an
\* empty Table, build_excel was never called and there is no document; main
\* reports that no data was collected and does not call send_email.
C7_NothingCollected ==
    FirstPageEmptyTwice =>
        /\ Len(all_rows) = 0
        /\ builds = 0
        /\ ~ArtifactExists
        /\ Returned => Len(rows) = 0
        /\ pc = "main_exit" =>
              report = "no_data" /\ email_calls = 0 /\ net_calls = 0

C7_Witness == FirstPageEmptyTwice /\ pc = "main_exit" /\ report = "no_data"

\* the signals on which the loop is left
NoNextPage == outcome = "success" /\ ~success
ExtractionStalled ==
    outcome = "stalled" /\ harvests > 0 /\ Len(batches) = page_num - 1
LoadFailedTwice == outcome = "stalled" /\ harvests = 0 /\ loads = 2

\* C8, as claimed: the loop is left only when no next page is offered or
\* when the extraction stalled.
C8_AsClaimed == LoopLeft => NoNextPage \/ ExtractionStalled

\* C8: the loop is left only when no next page is offered, when the
\* extraction stalled, or when a page failed to load twice; no page count
\* ends it: a page that loads, yields rows and offers a next page is followed
\* by the fetch of the next one.
C8_NoPageCeiling ==
    /\ LoopLeft => NoNextPage \/ ExtractionStalled \/ LoadFailedTwice
    /\ pc \in {"FETCHING", "EXTRACTING", "ADVANCING"} =>
          outcome = "none" /\ Len(batches) \in {page_num - 1, page_num}

\* the driver fetches the last page the site has
C8_Witness == pc = "FETCHING" /\ page_num = MaxPages /\ Len(batches) = MaxPages - 1

-----------------------------------------------------------------------------
(* Properties of the dispatchers *)

Exited == prog = "sender" /\ s_pc = "exited"

\* C9, as claimed: the tool exits with 0 exactly when the email was sent, and
\* with 1 otherwise.
C9_AsClaimed ==
    Exited => /\ exit_code \in {0, 1}
              /\ exit_code = 0 <=> delivery = "sent"

\* C9: the tool exits with 0 exactly when the email was sent or the operator
\* cancelled at the confirmation or at the selection prompt, and with 1
\* otherwise, in particular when no document was found.
C9_ExitStatus ==
    Exited => /\ exit_code \in {0, 1}
              /\ exit_code = 0 <=> delivery \in {"sent", "cancelled"}
              /\ delivery = "sent" => net_calls = 1
              /\ (Len(argv) = 0 /\ Len(available_files) = 0) => exit_code = 1

\* the operator quit at the selection prompt after an answer that was refused
C9_Witness ==
    /\ Exited
    /\ Len(available_files) > 1
    /\ prompts = 2
    /\ delivery = "cancelled"
    /\ exit_code = 0

\* a dispatcher was called with an incomplete configuration
Misconfigured == email_calls > 0 /\ ~ConfigComplete(config)

\* C10, as claimed: with an incomplete configuration either dispatcher makes
\* no network call, the outcome is "skipped" and no failure is reported.
C10_AsClaimed ==
    Misconfigured =>
        /\ net_calls = 0
        /\ delivery = "skipped"
        /\ prog = "scraper" => pc = "main_exit" /\ report = "done"
        /\ prog = "sender" => exit_code # 1

\* C10: with an incomplete configuration neither dispatcher makes a network
\* call; send_email of the scraper skips the delivery and the run completes
\* reporting success, while send_email_with_attachment of the dispatch tool
\* reports an error and the tool exits with 1.
C10_MisconfiguredDelivery ==
    Misconfigured =>
        /\ net_calls = 0
        /\ prog = "scraper" =>
              delivery = "skipped" /\ pc = "main_exit" /\ report = "done"
        /\ prog = "sender" =>
              delivery = "config_error" /\ s_pc = "exited" /\ exit_code = 1

\* the scraper collected rows and was configured without a recipient
C10_Witness ==
    /\ prog = "scraper"
    /\ pc = "main_exit"
    /\ email_calls = 1
    /\ Len(config.recipient) = 0
    /\ Len(config.smtp_user) > 0
    /\ delivery = "skipped"
    /\ Len(rows) > 0

-----------------------------------------------------------------------------
(* Properties of the normalizer *)

\* the rows the last scrape_page call of the current page returned
Got ==
    IF harvests > 0 /\ Len(batches) = page_num THEN batches[page_num] ELSE <<>>

\* TRUE when the cleaned name of a keyed candidate is not empty
Named(item) == clean_coin_name(Get(item, "name")) # <<>>

\* TRUE when a fallback candidate has 7 tokens, 7 of them left after the rank
\* and Buy filter, and a cleaned name that is not empty
NamedFallback(item) ==
    /\ Len(FallbackParts(item)) >= 7
    /\ Len(FallbackFiltered(item)) >= 7
    /\ clean_coin_name(FallbackFiltered(item)[1]) # <<>>

\* per page, the candidates with a non-empty cleaned name, in page order
KeyedKeptOf == [c \in PageContents |-> SelectSeq(c.js_data, Named)]
FallbackKeptOf ==
    [c \in PageContents |-> SelectSeq(c.fallback_data, NamedFallback)]

\* the page the last scrape_page call saw
Harvested == Pages[harvested]

\* those of the page harvested last
KeyedKept == KeyedKeptOf[Harvested]
FallbackKept == FallbackKeptOf[Harvested]

\* the page answered the keyed path with at least one named candidate
KeyedPathTaken == Len(KeyedKept) > 0

\* C11: a candidate whose cleaned name is empty is rejected on both paths: the
\* batch of a page has one row per candidate with a non-empty cleaned name and
\* none for the others, and no row of the Table has an empty name.
C11_EmptyNameRejected ==
    /\ \A i \in 1..Len(all_rows) : Len(all_rows[i][1]) > 0
    /\ harvests > 0 =>
          Len(Got) = IF KeyedPathTaken THEN Len(KeyedKept)
                     ELSE Len(FallbackKept)

\* page 1 had four keyed candidates, one of them without a name, and page 2
\* had a fallback candidate of 8 tokens without a name
C11_Witness ==
    /\ pc = "ADVANCING"
    /\ page_num = 2
    /\ Len(batches[1]) = 3
    /\ Len(Harvested.js_data) = 0
    /\ Len(Harvested.fallback_data) = 3
    /\ Len(FallbackFiltered(Harvested.fallback_data[2])) = 8
    /\ clean_coin_name(FallbackFiltered(Harvested.fallback_data[2])[1]) = <<>>
    /\ Len(batches[2]) = 1
    /\ Len(all_rows) = 4

\* the keys behind the fields 2 to 8 of a row of the keyed path
RowKeys == <<"price", "change1h", "change24h", "change7d", "volume",
             "marketCap", "graphLink">>

\* a text, possibly empty: characters at the positions 1..Len
IsText(x) ==
    /\ DOMAIN x = 1..Len(x)
    /\ \A j \in 1..Len(x) : x[j] \in STRING

\* C12: every row of the Table has exactly 8 positional fields, each of them a
\* text, whichever path produced it; a field the candidate does not provide
\* is the empty string.
C12_EightFields ==
    /\ \A i \in 1..Len(all_rows) :
          /\ DOMAIN all_rows[i] = 1..8
          /\ \A k \in 1..8 : IsText(all_rows[i][k])
    /\ (harvests > 0 /\ KeyedPathTaken) =>
          LET kept == KeyedKept
              got == Got
          IN  \A i \in 1..Len(got) : \A k \in 1..7 :
                  RowKeys[k] \notin DOMAIN kept[i] => got[i][k + 1] = <<>>

\* the second row of the batch comes from a candidate without a price, and
\* the Table also holds a row of the fallback path
C12_Witness ==
    /\ pc = "ADVANCING"
    /\ page_num = 2
    /\ Len(Got) = 3
    /\ "price" \notin DOMAIN KeyedKept[2]
    /\ Got[2][2] = <<>>
    /\ Len(Got[2]) = 8
    /\ Len(batches[1]) = 1
    /\ batches[1][1][2] = <<"B", "T", "C">>

\* the row the claim describes for a keyed candidate, its 8th field read
\* under the key linkKey
CopiedRow(item, linkKey) ==
    << clean_coin_name(Get(item, "name")), Get(item, "price"),
       Get(item, "change1h"), Get(item, "change24h"), Get(item, "change7d"),
       Get(item, "volume"), Get(item, "marketCap"), Get(item, linkKey) >>

\* per page, the rows described for its named keyed candidates
CopiedRowsOf(linkKey) ==
    [c \in PageContents |->
        [i \in 1..Len(KeyedKeptOf[c]) |-> CopiedRow(KeyedKeptOf[c][i], linkKey)]]

CopiedRowsLink == CopiedRowsOf("link")
CopiedRowsGraphLink == CopiedRowsOf("graphLink")

\* C13, as claimed: a keyed candidate normalizes to the row of its cleaned
\* name and of its values under price, change1h, change24h, change7d, volume,
\* marketCap and link, the value under the key link being the 8th field.
C13_AsClaimed ==
    (harvests > 0 /\ KeyedPathTaken) => Got = CopiedRowsLink[Harvested]

\* C13: a keyed candidate normalizes to the row of its cleaned name and of
\* its values under price, change1h, change24h, change7d, volume, marketCap
\* and graphLink, copied unchanged into the positions 2 to 8: the 8th field
\* is the value under the key graphLink, and a key named link is not read.
C13_KeyedRowCopy ==
    (harvests > 0 /\ KeyedPathTaken) => Got = CopiedRowsGraphLink[Harvested]

\* the first candidate of the page carries all the keys the script sets, its
\* link under graphLink, and became the first row of the batch
C13_Witness ==
    /\ pc = "ADVANCING"
    /\ KeyedPathTaken
    /\ DOMAIN KeyedKept[1] = {"name", "coinUrl", "price", "change1h",
                              "change24h", "change7d", "volume", "marketCap",
                              "graphLink"}
    /\ KeyedKept[1]["graphLink"] = Link1
    /\ Got[1] = << <<"B", "i", "t", "c", "o", "i", "n">>, Price1, Pct1, Pct2,
                   Pct3, Vol1, Cap1, Link1 >>

\* the three filters of the claim, the separators stripped before the numeric
\* test being seps: TRUE when the token is dropped
DroppedToken(tok, seps) ==
    \/ /\ \A i \in 1..Len(tok) : tok[i] \in Digits \cup seps
       /\ \E i \in 1..Len(tok) : tok[i] \in Digits
    \/ Lower(tok) = <<"b", "u", "y">>
    \/ Len(tok) <= 2 /\ \E i \in 1..Len(tok) : tok[i] \notin Letters

\* the surviving tokens of a raw name, in order, joined by single spaces
CleanedAs(name, seps) ==
    Join(SelectSeq(StrippedNonEmpty(Split(name, "\n")),
                   LAMBDA tok : ~DroppedToken(tok, seps)))

\* per page, the names so cleaned that are not empty: of the keyed candidates,
\* and of the fallback candidates of 7 tokens
CleanedNamesOf(seps) ==
    [c \in PageContents |->
        [keyed |->
            SelectSeq([i \in 1..Len(c.js_data) |->
                          CleanedAs(Get(c.js_data[i], "name"), seps)],
                      LAMBDA n : n # <<>>),
         fallback |->
            SelectSeq([i \in 1..Len(c.fallback_data) |->
                          LET item == c.fallback_data[i]
                          IN  IF /\ Len(FallbackParts(item)) >= 7
                                 /\ Len(FallbackFiltered(item)) >= 7
                              THEN CleanedAs(FallbackFiltered(item)[1], seps)
                              ELSE <<>>],
                      LAMBDA n : n # <<>>)]]

CleanedNamesCommas == CleanedNamesOf({","})
CleanedNamesCommasPeriods == CleanedNamesOf({",", "."})

\* the names of the rows the last harvest returned
GotNames == [i \in 1..Len(Got) |-> Got[i][1]]

\* C14, as claimed: the cleaned name is the tokens of the raw name joined by
\* single spaces, a token being dropped if it is purely numeric once commas
\* are stripped, if it is 'buy' ignoring case, or if it has at most 2
\* characters and is not purely alphabetic; a token such as '1.5' is kept.
C14_AsClaimed ==
    harvests > 0 =>
        LET names == CleanedNamesCommas[Harvested]
        IN  GotNames = IF Len(names.keyed) > 0 THEN names.keyed
                       ELSE names.fallback

\* C14: the cleaned name is the tokens of the raw name joined by single
\* spaces, a token being dropped if it is purely numeric once commas and
\* periods are stripped (so '1.5' is dropped), if it is 'buy' ignoring case,
\* or if it has at most 2 characters and is not purely alphabetic.
C14_NameCleaning ==
    harvests > 0 =>
        LET names == CleanedNamesCommasPeriods[Harvested]
        IN  GotNames = IF Len(names.keyed) > 0 THEN names.keyed
                       ELSE names.fallback

\* page 1 gave a name of two tokens, its rank dropped; every name of page 2
\* cleaned to nothing, one of them for its token 1.5
C14_Witness ==
    /\ pc = "DONE"
    /\ page_num = 2
    /\ Len(batches) = 1
    /\ Len(batches[1]) = 3
    /\ batches[1][2][1] =
          <<"E", "t", "h", "e", "r", "e", "u", "m", " ", "E", "T", "H">>
    /\ harvests = 1
    /\ Len(Harvested.js_data) = 2
    /\ Harvested.js_data[2]["name"] = RawDecimal
    /\ Got = <<>>

\* per page, the tokens of its accepted fallback candidates, rank and Buy
\* filtered out
FallbackTokensOf ==
    [c \in PageContents |->
        [i \in 1..Len(FallbackKeptOf[c]) |->
            FallbackFiltered(FallbackKeptOf[c][i])]]

\* those of its tokens that contain a percent symbol, in token order
PercentTokens(tokens) ==
    SelectSeq(tokens, LAMBDA tok : \E j \in 1..Len(tok) : tok[j] = "%")

\* the n-th element, or the empty text when there is none
NthOrEmpty(seq, n) == IF n <= Len(seq) THEN seq[n] ELSE <<>>

\* the last harvest took the fallback path
FallbackPathTaken == harvests > 0 /\ ~KeyedPathTaken

\* C15, as claimed: on the fallback path the 1h, 24h and 7d fields of a row
\* are the first, second and third token containing a percent symbol, and the
\* empty text where there is no such token.
C15_AsClaimed ==
    FallbackPathTaken =>
        \A i \in 1..Len(Got) :
            LET percents == PercentTokens(FallbackTokensOf[Harvested][i])
            IN  /\ Got[i][3] = NthOrEmpty(percents, 1)
                /\ Got[i][4] = NthOrEmpty(percents, 2)
                /\ Got[i][5] = NthOrEmpty(percents, 3)

\* C15: on the fallback path the 1h, 24h and 7d fields of a row are the
\* third, fourth and fifth of the candidate's tokens left by the rank and Buy
\* filter, by position, whether or not they contain a percent symbol; a
\* candidate of fewer than 7 such tokens gives no row.
C15_FallbackPositional ==
    FallbackPathTaken =>
        \A i \in 1..Len(Got) :
            LET tokens == FallbackTokensOf[Harvested][i]
            IN  /\ Len(tokens) >= 7
                /\ Got[i][3] = tokens[3]
                /\ Got[i][4] = tokens[4]
                /\ Got[i][5] = tokens[5]

\* the fallback row of a coin with a ticker: its 1h field is the price token,
\* although three tokens with a percent symbol follow
C15_Witness ==
    /\ pc = "ADVANCING"
    /\ FallbackPathTaken
    /\ Len(Got) = 1
    /\ Got[1][3] = Price1
    /\ Len(PercentTokens(FallbackTokensOf[Harvested][1])) = 3
    /\ Got[1][4] = PercentTokens(FallbackTokensOf[Harvested][1])[1]

-----------------------------------------------------------------------------
(* Properties of the run as a whole *)

\* a document: a file matching *.xlsx that is not the lock file a spreadsheet
\* program keeps beside an open document
IsDocument(name) ==
    /\ EndsWith(name, <<".", "x", "l", "s", "x">>)
    /\ ~StartsWith(name, <<"~", "$">>)

\* C16: the cleanup at the start of a run removes every document of the output
\* directory that no other process holds; a held one stays in place, does not
\* stop the deletion of the others and does not abort the run; every other
\* file is left as it was, and a second cleanup of the resulting directory
\* changes nothing.
C16_Cleanup ==
    [][(prog = "scraper" /\ pc = "main_start") =>
          /\ pc' = "FETCHING"
          /\ DOMAIN files' =
                {n \in DOMAIN files : ~IsDocument(n) \/ files[n].locked}
          /\ \A n \in DOMAIN files' : files'[n] = files[n]
          /\ \A order \in Orders(Glob(files')) :
                delete_old_excel_files(files', order) = files']_vars

\* the directory held a locked document, a free one and a lock file: after the
\* cleanup the free one is gone and the run goes on
C16_Witness ==
    /\ prog = "scraper"
    /\ pc = "FETCHING"
    /\ cleanups = 1
    /\ DOMAIN files = {OldA, TempA, OtherFile}
    /\ files[OldA].locked

\* TRUE when the sequence a is a prefix of the sequence b
IsPrefix(a, b) == Len(a) <= Len(b) /\ SubSeq(b, 1, Len(a)) = a

\* C17: the Table is append-only: across every step of a run the Table before
\* the step is a prefix of the Table after it, so no step removes, replaces or
\* reorders a row.
C17_AppendOnly == [][IsPrefix(all_rows, all_rows')]_vars

\* the Table grew twice, by two different batches, and the rows of page 1 are
\* still its first rows
C17_Witness ==
    /\ pc = "ADVANCING"
    /\ page_num = 2
    /\ Len(batches) = 2
    /\ batches[1] # batches[2]
    /\ Len(all_rows) = Len(batches[1]) + Len(batches[2])
    /\ SubSeq(all_rows, 1, Len(batches[1])) = batches[1]

\* C18: the scraper attempts the delivery at most once per run, only after the
\* traversal reached DONE and the Table was returned, and only when the Table
\* is not empty; the document at XLSX_PATH then holds the complete Table.
C18_DeliveryOnceAfterDone ==
    prog = "scraper" =>
        /\ email_calls <= 1
        /\ net_calls <= email_calls
        /\ email_calls = 1 =>
              /\ pc = "main_exit"
              /\ outcome \in {"success", "stalled"}
              /\ Len(all_rows) > 0
              /\ rows = all_rows
              /\ ArtifactExists
              /\ ArtifactRows = all_rows

\* two pages were collected, the third stalled, and the document of the two
\* pages was handed over and sent
C18_Witness ==
    /\ prog = "scraper"
    /\ pc = "main_exit"
    /\ email_calls = 1
    /\ delivery = "sent"
    /\ outcome = "stalled"
    /\ Len(batches) = 2
    /\ ArtifactExists
    /\ Len(ArtifactRows) = Len(batches[1]) + Len(batches[2])

-----------------------------------------------------------------------------
(* Properties of the dispatch tool's prompts *)

\* the tool runs, or ran, without a path argument
Searching == prog = "sender" /\ Len(argv) = 0 /\ s_pc # "start"

\* the answer approves the single candidate: yes, or nothing at all
Affirmative(text) ==
    LET word == Lower(Strip(text))
    IN  word = <<>> \/ word = <<"y">> \/ word = <<"y", "e", "s">>

\* the answer is the number k (below 10): its last digit, behind zeros and an
\* optional plus sign
IsNumber(text, k) ==
    LET t == Strip(text)
        body == IF Len(t) > 0 /\ t[1] = "+" THEN Tail(t) ELSE t
    IN  /\ Len(body) > 0
        /\ body[Len(body)] = ToString(k)
        /\ \A j \in 1..(Len(body) - 1) : body[j] = "0"

\* the answer asks to quit
IsQuit(text) ==
    Lower(Strip(text)) \in {<<"q">>, <<"q", "u", "i", "t">>,
                            <<"e", "x", "i", "t">>}

\* the list of candidates is the documents found, each once, lock files left
\* out, the most recently modified first
MostRecentFirst ==
    /\ \A i, j \in 1..Len(available_files) :
          i < j => /\ Mtime(available_files[i]) >= Mtime(available_files[j])
                   /\ available_files[i] # available_files[j]
    /\ {available_files[i] : i \in 1..Len(available_files)} =
          {found[i] : i \in 1..Len(found)} \ {DocTemp}

\* C19: without a path argument the tool sends only a document the operator
\* approved: a single candidate goes on to the dispatch only after an
\* affirmative or empty answer; with several candidates the tool goes on only
\* after a number between 1 and the number of candidates, the document being
\* the one at that position of the most-recently-modified-first list, and it
\* is still prompting after any answer that is neither such a number nor a
\* request to quit, which ends the tool without a dispatch.
C19_OnlyApproved ==
    Searching =>
        /\ MostRecentFirst
        /\ (s_pc = "sending" \/ email_calls > 0) =>
              /\ last_input.kind = "line"
              /\ Len(available_files) >= 1
              /\ IF Len(available_files) = 1
                 THEN /\ Affirmative(last_input.text)
                      /\ file_path = available_files[1]
                 ELSE \E k \in 1..Len(available_files) :
                          /\ IsNumber(last_input.text, k)
                          /\ file_path = available_files[k]
        /\ (s_pc = "select" /\ prompts > 0) =>
              /\ last_input.kind = "line"
              /\ ~IsQuit(last_input.text)
              /\ \A k \in 1..Len(available_files) :
                    ~IsNumber(last_input.text, k)
        /\ (last_input.kind = "line" /\ Len(available_files) > 1
               /\ IsQuit(last_input.text)) =>
              s_pc = "exited" /\ email_calls = 0
        /\ (last_input.kind = "line" /\ Len(available_files) = 1
               /\ ~Affirmative(last_input.text)) =>
              s_pc = "exited" /\ email_calls = 0

\* two candidates, a first answer that was refused, then " 2": the older
\* document was sent
C19_Witness ==
    /\ Searching
    /\ s_pc = "exited"
    /\ delivery = "sent"
    /\ Len(available_files) = 2
    /\ prompts = 2
    /\ last_input.text = <<" ", "2">>
    /\ file_path = available_files[2]
    /\ Mtime(available_files[1]) > Mtime(available_files[2])

-----------------------------------------------------------------------------
(* Termination of the pagination driver *)

InLoop == prog = "scraper" /\ pc \in {"FETCHING", "EXTRACTING", "ADVANCING"}

\* scrape_all closed the browser and returned the Table
ClosedAndReturned ==
    pc \in {"main_after", "main_exit"} /\ browser = "closed" /\ rows = all_rows

\* C20: a page costs at most two loads and two harvests (two only on page 1);
\* when the harvester has reported no next page, or no rows for a page (twice
\* on page 1), or a page has failed to load twice, the loop is left; and a
\* run that is in the loop or has left it goes on until the browser is closed
\* and the Table returned, unless a failed save aborts it before the
\* harvester reported any of the three.
C20_DriverTerminates ==
    /\ [](prog = "scraper" =>
            /\ loads <= 2
            /\ harvests <= 2
            /\ harvests = 2 => page_num = 1
            /\ (NoNextPage \/ ExtractionStalled \/ LoadFailedTwice) => LoopLeft
            /\ pc = "aborted" => outcome = "none")
    /\ (InLoop \/ (prog = "scraper" /\ pc = "DONE")) ~>
          (ClosedAndReturned \/ pc = "aborted")

\* page 2 failed to load twice: the loop was left with the rows of page 1,
\* the browser closed and the Table returned
C20_Witness ==
    /\ prog = "scraper"
    /\ pc = "main_after"
    /\ browser = "closed"
    /\ page_num = 2
    /\ loads = 2
    /\ harvests = 0
    /\ outcome = "stalled"
    /\ Len(all_rows) > 0
    /\ rows = all_rows

-----------------------------------------------------------------------------
(* The document of the run and the cleanup *)

\* a page of this run has been saved: the cleanup is over and the document
\* is at XLSX_PATH (no directory a run starts in holds that name)
Persisted == prog = "scraper" /\ cleanups = 1 /\ ArtifactExists

\* the run has ended with the delivery failed or skipped
Undelivered ==
    prog = "scraper" /\ pc = "main_exit" /\ delivery \in {"failed", "skipped"}

\* C21: the cleanup runs once, before the first build_excel call of the run,
\* and so never deletes the document of the run: from the first page saved
\* on, the document stays at XLSX_PATH, and no file of the directory appears
\* or disappears, through every later step, a stalled traversal, a failed
\* save and a failed or skipped delivery included.
C21_ArtifactStays ==
    /\ [](prog = "scraper" =>
            /\ cleanups = IF pc = "main_start" THEN 0 ELSE 1
            /\ builds > 0 => cleanups = 1
            /\ (pc \in {"ADVANCING", "main_exit"} /\ Len(all_rows) > 0)
                   => ArtifactExists
            /\ (Len(rows) > 0 /\ (outcome = "stalled" \/ Undelivered))
                   => ArtifactExists /\ ArtifactRows = rows)
    /\ [][cleanups' # cleanups =>
              /\ pc = "main_start"
              /\ builds = 0 /\ builds' = 0
              /\ ~ArtifactExists']_vars
    /\ [][Persisted => Persisted' /\ DOMAIN files' = DOMAIN files]_vars

\* the cleanup removed b.xlsx and left the locked a.xlsx; two pages were
\* saved, the third gave no rows, and the delivery failed: the document is
\* there with the rows of both pages
C21_Witness ==
    /\ Undelivered
    /\ delivery = "failed"
    /\ outcome = "stalled"
    /\ cleanups = 1
    /\ builds = 2
    /\ DOMAIN files = {OldA, TempA, OtherFile, XLSX_PATH}
    /\ ArtifactRows = all_rows
    /\ Len(all_rows) > 0

====
